---- MODULE Spec2Model ----
(***************************************************************************)
(* A model of diagmagic.py: the IPython magics %%actdiag, %%blockdiag,     *)
(* %%nwdiag, %%seqdiag, %%rackdiag, %%packetdiag, %setdiagsize,            *)
(* %setdiagsvg, %setdiagpng and the extension hook                         *)
(* load_ipython_extension.                                                 *)
(*                                                                         *)
(* The module-level globals are the state.  One magic runs at a time (the  *)
(* kernel is single threaded), so a magic is only started when pc is       *)
(* "idle", and only once ip.register_magics has made the magics known to   *)
(* the host.  BlockdiagMagics.diag is split at its external calls: temp    *)
(* file staging, the dialect subprocess, inkscape, the artifact read, the  *)
(* finally block, the publish call.  The outcome of every external call is *)
(* chosen by the environment.                                              *)
(*                                                                         *)
(* Strings of the program are sequences of one-character strings; file     *)
(* contents are sequences of bytes.  The semantics are those of the        *)
(* Python 2 the file is written for (imp, pipes, a text-mode write of an   *)
(* encoded str), on a POSIX host (os.uname() at import).                   *)
(***************************************************************************)
EXTENDS Integers, Sequences, FiniteSets, TLC

\* ---------------------------------------------------------------- bounds
MaxLineLen == 4      \* longest argument line given to %setdiagsize
MaxActivations == 2  \* most calls of load_ipython_extension the host makes

\* The characters an argument line is made of.
LineChars == {"1", ",", "-", "x"}

\* The images an external program may write (opaque bytes).
Blobs == {<<137, 80>>, <<60, 115>>}

BoundedSeq(S, n) == UNION {[1..k -> S] : k \in 0..n}
Lines == BoundedSeq(LineChars, MaxLineLen)

\* The cell bodies given to a dialect magic: an empty one and one with a
\* character outside ASCII ("e'" stands for U+00E9).
Cells == {<<>>, <<"a", "e'">>}

\* The six cell magics, lines 175-205.
Dialects == {"actdiag", "blockdiag", "nwdiag", "seqdiag", "rackdiag", "packetdiag"}

VARIABLES
    _draw_mode,            \* global, line 61
    _publish_mode,         \* global, line 62
    _size,                 \* global, line 63: <<width, height>>
    _inkscape_available,   \* global, line 66: "None", "True" or "False"
    _loaded,               \* global, line 229
    registered,            \* the host: number of ip.register_magics calls made
    activations,           \* the host: number of load_ipython_extension calls made
    sys_argv,              \* sys.argv: "host" (the kernel's) or "tool" (diag's, line 135)
    pc,                    \* where the running magic is; "idle" when none runs
    magic,                 \* the cell magic that was invoked
    command,               \* diag's parameter `command`
    code,                  \* diag's local `code`
    saved_argv,            \* diag's local `saved_argv`
    tmpdir,                \* diag's local `tmpdir`: "unbound" or "bound"
    dirExists,             \* the file system: the directory mkdtemp made exists
    files,                 \* the file system: file name -> bytes, inside that directory
    data,                  \* diag's local `data`
    exc,                   \* the exception in flight, "None" when there is none
    events,                \* the external calls of the running magic, in order
    published,             \* the payloads given to publish_display_data by the running magic
    stderr,                \* number of diagnostics run_command printed during the running magic
    probes                 \* number of times inkscape was probed ([_inkscape, '--export-png'])

vars == <<_draw_mode, _publish_mode, _size, _inkscape_available, _loaded, registered,
          activations,
          sys_argv, pc, magic, command, code, saved_argv, tmpdir, dirExists, files,
          data, exc, events, published, stderr, probes>>

globals == <<_draw_mode, _publish_mode, _size, _inkscape_available, _loaded, registered,
             activations>>
locals == <<magic, command, code, saved_argv, tmpdir, data>>
world == <<dirExists, files, sys_argv, events, published, stderr, probes>>

\* ------------------------------------------------------ string helpers
\* str.lower() on the two mode names, lines 131 and 154.
Lower(mode) == IF mode = "SVG" THEN "svg" ELSE "png"

\* unicode.encode('utf-8') of one character, line 128.
Utf8Char(c) == CASE c = "a" -> <<97>>
                 [] c = "e'" -> <<195, 169>>
                 [] c = "\n" -> <<10>>

RECURSIVE Utf8(_)
Utf8(s) == IF s = <<>> THEN <<>> ELSE Utf8Char(Head(s)) \o Utf8(Tail(s))

\* str.find(','), line 215: the 0-based index of the first comma, -1 when there is none.
Find(s, c) ==
    IF \E i \in 1..Len(s) : s[i] = c
    THEN (CHOOSE i \in 1..Len(s) : s[i] = c /\ \A j \in 1..(i - 1) : s[j] # c) - 1
    ELSE -1

\* Python's s[:k]: a negative k counts from the end, and the bounds are clipped.
SliceTo(s, k) ==
    LET stop == IF k < 0 THEN (IF Len(s) + k < 0 THEN 0 ELSE Len(s) + k)
                ELSE (IF k > Len(s) THEN Len(s) ELSE k)
    IN SubSeq(s, 1, stop)

\* Python's s[k:] for k >= 0.
SliceFrom(s, k) == SubSeq(s, k + 1, Len(s))

Whitespace == {" ", "\t", "\n"}
Digits == {"0", "1", "2", "3", "4", "5", "6", "7", "8", "9"}
DigitVal(c) == CASE c = "0" -> 0 [] c = "1" -> 1 [] c = "2" -> 2 [] c = "3" -> 3
                 [] c = "4" -> 4 [] c = "5" -> 5 [] c = "6" -> 6 [] c = "7" -> 7
                 [] c = "8" -> 8 [] c = "9" -> 9

RECURSIVE LStrip(_)
LStrip(s) == IF s # <<>> /\ Head(s) \in Whitespace THEN LStrip(Tail(s)) ELSE s

RECURSIVE RStrip(_)
RStrip(s) == IF s # <<>> /\ s[Len(s)] \in Whitespace
             THEN RStrip(SubSeq(s, 1, Len(s) - 1)) ELSE s

\* The digits of an int() argument: surrounding whitespace and one sign removed.
Unsigned(s) ==
    LET t == RStrip(LStrip(s))
    IN IF t # <<>> /\ Head(t) \in {"+", "-"} THEN Tail(t) ELSE t

\* int(s) returns (does not raise ValueError).
IntParses(s) ==
    /\ Unsigned(s) # <<>>
    /\ \A i \in 1..Len(Unsigned(s)) : Unsigned(s)[i] \in Digits

RECURSIVE DecimalValue(_)
DecimalValue(d) ==
    IF d = <<>> THEN 0
    ELSE 10 * DecimalValue(SubSeq(d, 1, Len(d) - 1)) + DigitVal(d[Len(d)])

\* The value int(s) returns when it parses.
IntValue(s) ==
    LET t == RStrip(LStrip(s))
    IN IF Head(t) = "-" THEN 0 - DecimalValue(Unsigned(s)) ELSE DecimalValue(Unsigned(s))

\* The two int() arguments of line 215.
WidthText(line) == SliceTo(line, Find(line, ","))
HeightText(line) == SliceFrom(line, Find(line, ",") + 1)

\* ------------------------------------------------------ file system helpers
\* diag_name + '.' + format, lines 132 and 154 (diag_name is the file "diag").
WithSuffix(format) == IF format = "svg" THEN "diag.svg" ELSE "diag.png"

Exists(fs, name) == name \in DOMAIN fs

WriteFile(fs, name, bytes) ==
    [n \in (DOMAIN fs) \cup {name} |-> IF n = name THEN bytes ELSE fs[n]]

NoFiles == [n \in {} |-> <<>>]


Init ==
    /\ _draw_mode = "SVG"
    /\ _publish_mode = "SVG"
    /\ _size = <<1000, 500>>
    /\ _inkscape_available = "None"
    /\ _loaded = FALSE
    /\ registered = 0
    /\ activations = 0
    /\ sys_argv = "host"
    /\ pc = "idle"
    /\ magic = "None"
    /\ command = "None"
    /\ code = <<>>
    /\ saved_argv = "host"
    /\ tmpdir = "unbound"
    /\ dirExists = FALSE
    /\ files = NoFiles
    /\ data = <<>>
    /\ exc = "None"
    /\ events = <<>>
    /\ published = <<>>
    /\ stderr = 0
    /\ probes = 0

\* ------------------------------------------------------ the mode magics
\* The host runs a magic of BlockdiagMagics only after line 235 registered the class.
Known == registered > 0

\* setdiagsvg with a slip: only the publish mode is set.
SetPublishModeSvgOnly ==
    /\ pc = "idle"
    /\ Known
    /\ _publish_mode' = "SVG"
    /\ UNCHANGED <<_draw_mode, _size, _inkscape_available, _loaded, registered, activations,
                   pc, exc>>
    /\ UNCHANGED <<locals, world>>

\* %setdiagsvg, lines 218-221.
setdiagsvg ==
    /\ pc = "idle"
    /\ Known
    /\ _draw_mode' = "SVG"
    /\ _publish_mode' = "SVG"
    /\ UNCHANGED <<_size, _inkscape_available, _loaded, registered, activations, pc, exc>>
    /\ UNCHANGED <<locals, world>>

\* %setdiagpng, lines 223-226.
setdiagpng ==
    /\ pc = "idle"
    /\ Known
    /\ _draw_mode' = "PNG"
    /\ _publish_mode' = "PNG"
    /\ UNCHANGED <<_size, _inkscape_available, _loaded, registered, activations, pc, exc>>
    /\ UNCHANGED <<locals, world>>

\* %setdiagsize, lines 208-215: both int() calls are made before _size is assigned;
\* a ValueError of either leaves _size alone and reaches the host.
setdiagsize(line) ==
    /\ pc = "idle"
    /\ Known
    /\ IF IntParses(WidthText(line)) /\ IntParses(HeightText(line))
       THEN /\ _size' = <<IntValue(WidthText(line)), IntValue(HeightText(line))>>
            /\ UNCHANGED <<pc, exc>>
       ELSE /\ pc' = "raised"
            /\ exc' = "ValueError"
            /\ UNCHANGED _size
    /\ UNCHANGED <<_draw_mode, _publish_mode, _inkscape_available, _loaded, registered,
                   activations>>
    /\ UNCHANGED <<locals, world>>

\* ------------------------------------------------------ the extension hook
\* ShouldRegister with a slip: no guard.
RegisterEveryTime(loaded) == TRUE

\* The guard of line 234.
ShouldRegister(loaded) == ~loaded

\* load_ipython_extension, lines 231-236.
load_ipython_extension ==
    /\ pc = "idle"
    /\ activations < MaxActivations
    /\ activations' = activations + 1
    /\ IF ShouldRegister(_loaded)
       THEN /\ registered' = registered + 1
            /\ _loaded' = TRUE
       ELSE UNCHANGED <<registered, _loaded>>
    /\ UNCHANGED <<_draw_mode, _publish_mode, _size, _inkscape_available, pc, exc>>
    /\ UNCHANGED <<locals, world>>

\* ------------------------------------------------------ the render pipeline
\* run_command, lines 82-101: subprocess.call raises OSError only when the program
\* cannot be launched; the OSError is caught, a diagnostic printed, False returned.
\* An exit status is not looked at.
run_command(launched) == launched

\* ProbeNeeded with a slip: the cache is not consulted.
ProbeEveryTime(cached) == TRUE

\* The test of line 105: probe only while nothing is cached.
ProbeNeeded(cached) == cached = "None"

\* The value cached by line 106.
Cached(result) == IF result THEN "True" ELSE "False"

\* ForcedDrawMode with a slip: the draw mode is never forced.
NeverForced(publish, available, draw) == draw

\* ForcedDrawMode with a slip: forced in PNG mode whether or not inkscape is there.
ForcedUnprobed(publish, available, draw) == IF publish = "PNG" THEN "SVG" ELSE draw

\* Lines 117-121: the draw mode diag goes on with.
ForcedDrawMode(publish, available, draw) ==
    IF publish = "PNG" /\ available THEN "SVG" ELSE draw

\* The name passed as `command` by each cell magic, lines 175-205.
ToolOf(m) == CASE m = "actdiag" -> "actdiag"
               [] m = "blockdiag" -> "blockdiag"
               [] m = "nwdiag" -> "nwdiag"
               [] m = "seqdiag" -> "seqdiag"
               [] m = "rackdiag" -> "rackdiag"
               [] m = "packetdiag" -> "packetdiag"

\* A cell magic is run: lines 175-205, then diag up to line 121.  `launched` is
\* the environment's answer should inkscape be probed.
DiagBegin(m, cell, launched) ==
    /\ pc = "idle"
    /\ Known
    /\ magic' = m
    /\ command' = ToolOf(m)
    /\ code' = cell \o <<"\n">>
    /\ IF _publish_mode = "PNG"
       THEN LET probe == ProbeNeeded(_inkscape_available)
                answer == IF probe THEN Cached(run_command(launched))
                          ELSE _inkscape_available
            IN /\ _inkscape_available' = answer
               /\ probes' = IF probe THEN probes + 1 ELSE probes
               /\ stderr' = IF probe /\ ~run_command(launched) THEN stderr + 1 ELSE stderr
               /\ _draw_mode' = ForcedDrawMode(_publish_mode, answer = "True", _draw_mode)
       ELSE UNCHANGED <<_inkscape_available, probes, stderr, _draw_mode>>
    /\ pc' = "mkdtemp"
    /\ UNCHANGED <<_publish_mode, _size, _loaded, registered, activations, exc>>
    /\ UNCHANGED <<saved_argv, tmpdir, data, dirExists, files, sys_argv, events, published>>

\* Line 125.
Mkdtemp(ok) ==
    /\ pc = "mkdtemp"
    /\ IF ok
       THEN /\ tmpdir' = "bound"
            /\ dirExists' = TRUE
            /\ pc' = "mkstemp"
            /\ UNCHANGED exc
       ELSE /\ exc' = "OSError"
            /\ pc' = "finally"
            /\ UNCHANGED <<tmpdir, dirExists>>
    /\ UNCHANGED <<globals, magic, command, code, saved_argv, data>>
    /\ UNCHANGED <<files, sys_argv, events, published, stderr, probes>>

\* Lines 126-129: mkstemp makes the empty file, write fills it.  Either may
\* raise (for write: an I/O error, or the TypeError of a text-mode file given
\* bytes); exc names the failed write "IOError".
Mkstemp(made, written) ==
    /\ pc = "mkstemp"
    /\ IF ~made
       THEN /\ exc' = "OSError"
            /\ pc' = "finally"
            /\ UNCHANGED files
       ELSE IF ~written
       THEN /\ files' = WriteFile(files, "diag", <<>>)
            /\ exc' = "IOError"
            /\ pc' = "finally"
       ELSE /\ files' = WriteFile(files, "diag", Utf8(code))
            /\ pc' = "tool"
            /\ UNCHANGED exc
    /\ UNCHANGED <<globals, locals>>
    /\ UNCHANGED <<dirExists, sys_argv, events, published, stderr, probes>>

\* Line 150: whether inkscape is to render the SVG.
NeedsConversion(draw, publish) == draw = "SVG" /\ publish = "PNG"

\* Lines 131-150: the dialect program is run with subprocess.call directly.  An
\* OSError of the launch is not caught here: it leaves the try block with sys.argv
\* not restored.  A launched program writes draw_name or does not.  The event
\* keeps the arguments of line 135: the program, -T format, --size from _size.
InvokeTool(launched, wrote, blob) ==
    /\ pc = "tool"
    /\ LET format == Lower(_draw_mode)
           draw_name == WithSuffix(format)
       IN /\ saved_argv' = sys_argv
          /\ events' = Append(events, [ev |-> "tool", name |-> command, fmt |-> format,
                                       size |-> _size, launched |-> launched,
                                       bytes |-> IF launched /\ wrote THEN blob ELSE <<>>])
          /\ IF launched
             THEN /\ sys_argv' = sys_argv
                  /\ files' = IF wrote THEN WriteFile(files, draw_name, blob) ELSE files
                  /\ pc' = IF NeedsConversion(_draw_mode, _publish_mode)
                           THEN "svg2png" ELSE "read"
                  /\ UNCHANGED exc
             ELSE /\ sys_argv' = "tool"
                  /\ exc' = "OSError"
                  /\ pc' = "finally"
                  /\ UNCHANGED files
    /\ UNCHANGED <<globals, magic, command, code, tmpdir, data>>
    /\ UNCHANGED <<dirExists, published, stderr, probes>>

\* svg2png, lines 109-111 and 152: inkscape through run_command, whose result is
\* dropped.  A launched inkscape writes the .png from the .svg or does not.
svg2png(launched, wrote, blob) ==
    /\ pc = "svg2png"
    /\ LET done == run_command(launched) /\ wrote /\ Exists(files, "diag.svg")
       IN /\ events' = Append(events, [ev |-> "svg2png", name |-> "inkscape", fmt |-> "png",
                                       size |-> _size, launched |-> launched,
                                       bytes |-> IF done THEN blob ELSE <<>>])
          /\ files' = IF done THEN WriteFile(files, "diag.png", blob) ELSE files
    /\ stderr' = IF run_command(launched) THEN stderr ELSE stderr + 1
    /\ pc' = "read"
    /\ UNCHANGED <<globals, locals>>
    /\ UNCHANGED <<dirExists, sys_argv, published, probes, exc>>

\* ArtifactName with a slip: the file of the draw mode is read back.
ArtifactOfDrawMode(publish, draw) == WithSuffix(Lower(draw))

\* Line 154: the file that is read back.
ArtifactName(publish, draw) == WithSuffix(Lower(publish))

\* Lines 154-157.
ReadArtifact ==
    /\ pc = "read"
    /\ LET file_name == ArtifactName(_publish_mode, _draw_mode)
           found == Exists(files, file_name)
       IN /\ events' = Append(events, [ev |-> "read", name |-> file_name,
                                       fmt |-> Lower(_publish_mode), size |-> _size,
                                       launched |-> found,
                                       bytes |-> IF found THEN files[file_name] ELSE <<>>])
          /\ IF found
             THEN /\ data' = files[file_name]
                  /\ UNCHANGED exc
             ELSE /\ exc' = "IOError"
                  /\ UNCHANGED data
    /\ pc' = "finally"
    /\ UNCHANGED <<globals, magic, command, code, saved_argv, tmpdir>>
    /\ UNCHANGED <<dirExists, files, sys_argv, published, stderr, probes>>

\* Unlinked with a slip: only the staged input file is removed.
UnlinkedInputOnly(fs) == [n \in (DOMAIN fs) \ {"diag"} |-> fs[n]]

\* Lines 160-161: every file os.listdir finds in the directory is unlinked.
Unlinked(fs) == NoFiles

\* Lines 159-162, a finally clause: it runs whatever is in flight.  With tmpdir
\* unbound (mkdtemp raised) os.listdir(tmpdir) raises UnboundLocalError; os.rmdir
\* of a directory that still holds a file raises OSError and removes nothing.  An
\* exception of the clause replaces the one in flight.
Finally ==
    /\ pc = "finally"
    /\ IF tmpdir = "unbound"
       THEN /\ exc' = "UnboundLocalError"
            /\ pc' = "raised"
            /\ UNCHANGED <<files, dirExists>>
       ELSE /\ files' = Unlinked(files)
            /\ IF files' = NoFiles
               THEN /\ dirExists' = FALSE
                    /\ pc' = IF exc = "None" THEN "publish" ELSE "raised"
                    /\ UNCHANGED exc
               ELSE /\ exc' = "OSError"
                    /\ pc' = "raised"
                    /\ UNCHANGED dirExists
    /\ UNCHANGED <<globals, locals>>
    /\ UNCHANGED <<sys_argv, events, published, stderr, probes>>

\* Lines 164-173: the MIME type of the payload.
MimeType(publish) == IF publish = "SVG" THEN "image/svg+xml" ELSE "image/png"

\* Lines 164-173.
Publish ==
    /\ pc = "publish"
    /\ published' = Append(published, [mime |-> MimeType(_publish_mode), data |-> data])
    /\ pc' = "returned"
    /\ UNCHANGED <<globals, locals>>
    /\ UNCHANGED <<dirExists, files, sys_argv, events, stderr, probes, exc>>

\* The magic is over, normally or by an exception that reached the host: its
\* locals are gone and the host is ready for the next cell.
Return ==
    /\ pc \in {"returned", "raised"}
    /\ pc' = "idle"
    /\ magic' = "None"
    /\ command' = "None"
    /\ code' = <<>>
    /\ saved_argv' = "host"
    /\ tmpdir' = "unbound"
    /\ data' = <<>>
    /\ exc' = "None"
    /\ events' = <<>>
    /\ published' = <<>>
    /\ stderr' = 0
    /\ UNCHANGED <<globals, dirExists, files, sys_argv, probes>>

Next ==
    \/ setdiagsvg
    \/ setdiagpng
    \/ \E line \in Lines : setdiagsize(line)
    \/ load_ipython_extension
    \/ \E m \in Dialects, cell \in Cells, launched \in BOOLEAN : DiagBegin(m, cell, launched)
    \/ \E ok \in BOOLEAN : Mkdtemp(ok)
    \/ \E made \in BOOLEAN, written \in BOOLEAN : Mkstemp(made, written)
    \/ \E launched \in BOOLEAN, wrote \in BOOLEAN, blob \in Blobs :
          InvokeTool(launched, wrote, blob)
    \/ \E launched \in BOOLEAN, wrote \in BOOLEAN, blob \in Blobs :
          svg2png(launched, wrote, blob)
    \/ ReadArtifact
    \/ Finally
    \/ Publish
    \/ Return

Spec == Init /\ [][Next]_vars

\* ------------------------------------------------------ properties
\* A dialect magic is running or has just ended.
InRender == magic \in Dialects

\* The running render is over: diag returned, or an exception left it.
RenderOver == InRender /\ pc \in {"returned", "raised"}

\* The external calls of the running render, as <<call, format>> pairs.
Calls == [i \in 1..Len(events) |-> <<events[i].ev, events[i].fmt>>]

IsPrefix(s, t) == Len(s) <= Len(t) /\ s = SubSeq(t, 1, Len(s))

\* The dialect program of the running render was launched.
ToolLaunched == Len(events) >= 1 /\ events[1].ev = "tool" /\ events[1].launched

\* C1: once a render is over (it returned, or raised), the temporary directory
\* made for it is gone, and so is every file in it.
C1_TempDirRemoved ==
    (pc \in {"publish", "returned", "raised", "idle"}) => (~dirExists /\ files = NoFiles)

\* A render that staged its input, ran the dialect program and then raised.
C1_Witness ==
    /\ RenderOver
    /\ pc = "raised"
    /\ exc = "IOError"
    /\ ToolLaunched
    /\ events[1].bytes # <<>>
    /\ ~dirExists

ConvertedCalls == << <<"tool", "svg">>, <<"svg2png", "png">>, <<"read", "png">> >>

\* C2: in a render with publish format PNG and inkscape cached as available, the
\* external calls are, in this order, the dialect program with format svg,
\* inkscape's conversion and the read of the .png; none comes out of order, and
\* once the dialect program was launched the render does not end before all three
\* were made.
C2_ConvertedOrder ==
    (InRender /\ _publish_mode = "PNG" /\ _inkscape_available = "True") =>
        /\ IsPrefix(Calls, ConvertedCalls)
        /\ \A i \in 1..Len(events) :
              /\ events[i].ev = "tool" => events[i].name = command
              /\ events[i].ev = "read" => events[i].name = "diag.png"
        /\ (ToolLaunched /\ pc \in {"finally", "publish", "returned", "raised"})
              => Calls = ConvertedCalls
        /\ pc \in {"publish", "returned"} => Calls = ConvertedCalls

\* A render that went through inkscape and returned.
C2_Witness ==
    /\ RenderOver
    /\ pc = "returned"
    /\ _publish_mode = "PNG"
    /\ _inkscape_available = "True"
    /\ Calls = ConvertedCalls

DirectPngCalls == << <<"tool", "png">>, <<"read", "png">> >>

\* C3: in a render with publish format PNG and inkscape unavailable, the external
\* calls are the dialect program with format png and then the read of the .png;
\* inkscape's conversion is never called.
C3_DirectPng ==
    (InRender /\ _publish_mode = "PNG" /\ _inkscape_available = "False") =>
        /\ IsPrefix(Calls, DirectPngCalls)
        /\ \A i \in 1..Len(events) : events[i].ev # "svg2png"
        /\ \A i \in 1..Len(events) : events[i].ev = "read" => events[i].name = "diag.png"
        /\ (ToolLaunched /\ pc \in {"finally", "publish", "returned", "raised"})
              => Calls = DirectPngCalls
        /\ pc \in {"publish", "returned"} => Calls = DirectPngCalls

\* A PNG render without inkscape that returned.
C3_Witness ==
    /\ RenderOver
    /\ pc = "returned"
    /\ _publish_mode = "PNG"
    /\ _inkscape_available = "False"
    /\ Calls = DirectPngCalls

\* The bytes an external program of the running render wrote last to the file
\* of the given format; <<>> when none was written.
RECURSIVE WrittenTo(_, _)
WrittenTo(format, n) ==
    IF n = 0 THEN <<>>
    ELSE IF events[n].ev \in {"tool", "svg2png"} /\ events[n].fmt = format
            /\ events[n].bytes # <<>>
         THEN events[n].bytes
         ELSE WrittenTo(format, n - 1)

\* C4: a render that returns has published exactly one payload: its bytes are
\* those written to the file of the publish format, its MIME type is
\* image/svg+xml in SVG mode and image/png in PNG mode, and the program that was
\* run is the one named like the magic.  A render that raised published nothing.
C4_PublishedPayload ==
    /\ (InRender /\ pc = "returned") =>
          /\ Len(published) = 1
          /\ published[1].data = WrittenTo(Lower(_publish_mode), Len(events))
          /\ published[1].data # <<>>
          /\ published[1].mime =
                (IF _publish_mode = "SVG" THEN "image/svg+xml" ELSE "image/png")
          /\ command = magic
          /\ events[1].ev = "tool" /\ events[1].name = magic
    /\ (InRender /\ pc # "returned") => published = <<>>

\* A packetdiag render through inkscape that published its PNG.
C4_Witness ==
    /\ pc = "returned"
    /\ magic = "packetdiag"
    /\ _publish_mode = "PNG"
    /\ _draw_mode = "SVG"
    /\ Len(published) = 1
    /\ events[1].bytes # events[2].bytes

\* A line of the form "<int>,<int>".
WellFormed(line) ==
    \E k \in 1..Len(line) :
        /\ line[k] = ","
        /\ IntParses(SubSeq(line, 1, k - 1))
        /\ IntParses(SubSeq(line, k + 1, Len(line)))

\* C5: %setdiagsize on a line "<int>,<int>" sets _size to that pair; on any other
\* line it raises ValueError and assigns nothing.
C5_SizeParsedOrRejected ==
    [][\A line \in Lines :
          setdiagsize(line) =>
              IF WellFormed(line)
              THEN /\ pc' = "idle"
                   /\ \E k \in 1..Len(line) :
                         /\ line[k] = ","
                         /\ _size' = <<IntValue(SubSeq(line, 1, k - 1)),
                                       IntValue(SubSeq(line, k + 1, Len(line)))>>
              ELSE /\ pc' = "raised"
                   /\ exc' = "ValueError"
                   /\ _size' = _size]_vars

\* C6: however often the host calls load_ipython_extension, the magics are
\* registered exactly once, by the first call, which also sets _loaded.
C6_RegisteredOnce ==
    /\ registered = (IF activations >= 1 THEN 1 ELSE 0)
    /\ _loaded = (activations >= 1)

\* The hook was called a second time.
C6_Witness == activations >= 2 /\ registered = 1 /\ _loaded

\* C7: a render whose dialect program could not be launched goes on to the
\* artifact read and ends with the missing-file error of that read, not with the
\* launch error.
C7_LaunchFailureReachesRead ==
    (RenderOver /\ Len(events) >= 1 /\ events[1].ev = "tool" /\ ~events[1].launched) =>
        /\ \E i \in 1..Len(events) : events[i].ev = "read"
        /\ exc = "IOError"

\* C8: both components of _size are positive.
C8_SizePositive == _size[1] > 0 /\ _size[2] > 0

\* A render is entered by this step.
RenderBegins == pc = "idle" /\ pc' = "mkdtemp"

\* C9: inkscape is probed at most once.  Nothing is cached before the probe; the
\* first render in PNG mode probes and caches "True", or "False" when inkscape
\* could not be launched; after that neither the cached value changes nor is
\* another probe made; a render in SVG mode never probes.
C9_ProbedOnce ==
    [][/\ probes' <= 1
       /\ (_inkscape_available' = "None") <=> (probes' = 0)
       /\ _inkscape_available # "None" =>
             (_inkscape_available' = _inkscape_available /\ probes' = probes)
       /\ (RenderBegins /\ _publish_mode = "PNG" /\ _inkscape_available = "None") =>
             /\ probes' = probes + 1
             /\ _inkscape_available' \in {"True", "False"}
             /\ (_inkscape_available' = "False") <=> (stderr' = stderr + 1)
       /\ (RenderBegins /\ _publish_mode = "SVG") =>
             (_inkscape_available' = _inkscape_available /\ probes' = probes)]_vars

\* A PNG render that returned without probing, the failed probe being an earlier
\* render's.
C9_Witness ==
    /\ RenderOver
    /\ pc = "returned"
    /\ _publish_mode = "PNG"
    /\ _inkscape_available = "False"
    /\ probes = 1
    /\ stderr = 0

\* C10: both modes are SVG or PNG; they differ only as draw SVG with publish PNG,
\* and only while inkscape is cached as available.
C10_ModePairs ==
    /\ _draw_mode \in {"SVG", "PNG"}
    /\ _publish_mode \in {"SVG", "PNG"}
    /\ _draw_mode # _publish_mode =>
          /\ _draw_mode = "SVG"
          /\ _publish_mode = "PNG"
          /\ _inkscape_available = "True"

\* The modes differ, between two magics.
C10_Witness ==
    /\ pc = "idle"
    /\ _draw_mode = "SVG"
    /\ _publish_mode = "PNG"
    /\ _inkscape_available = "True"
====
